---- MODULE Spec2Model ----
(***************************************************************************)
(* drizzle-builder: path and identity utilities, the file tree reader,     *)
(* the pattern tree builder and the collection renderer.                   *)
(*                                                                         *)
(* Strings are sequences of one-character strings, so that split, join,    *)
(* indexOf and the path functions are computed character by character.     *)
(***************************************************************************)
EXTENDS Integers, Sequences, FiniteSets, TLC

VARIABLES
  call,       \* utilities: the last call made, [fn, args]
  ret,        \* utilities: what that call returned
  rstate,     \* reader: "idle" | "reading" | "resolved" | "rejected" | "keyed"
  paths,      \* reader: the sequence of paths the glob resolution returned
  pending,    \* reader: indices of the reads still in flight
  slots,      \* reader: per index, the record its read produced (or <<>>)
  done,       \* reader: indices in the order their reads completed
  resolved,   \* reader: the value readFiles resolved with
  keyed,      \* reader: the mapping readFilesKeyed resolved with
  records,    \* builder: the file records, in read order
  idx,        \* builder: number of records consumed so far
  tree,       \* builder / renderer: the patterns tree
  phase,      \* "building" | "failed" | "built" | "rendered" | "overflowed"
  error,      \* builder: the reserved-property error raised, or NoError
  built,      \* renderer: the tree as the builder handed it over
  templates,  \* renderer: the template tree
  walk        \* renderer: key order of the walk and what the walk did

vars == <<call, ret, rstate, paths, pending, slots, done, resolved, keyed,
          records, idx, tree, phase, error, built, templates, walk>>

utilVars == <<call, ret>>
readVars == <<rstate, paths, pending, slots, done, resolved, keyed>>
buildVars == <<records, idx, tree, phase, error, built, templates, walk>>

(***************************************************************************)
(* Strings                                                                 *)
(***************************************************************************)
Sep == "/"

\* String.prototype.split(ch) for a one-character separator
RECURSIVE split(_, _)
split(s, ch) ==
  IF \A i \in 1..Len(s) : s[i] # ch
  THEN <<s>>
  ELSE LET i == CHOOSE k \in 1..Len(s) :
                  s[k] = ch /\ \A j \in 1..(k - 1) : s[j] # ch
       IN <<SubSeq(s, 1, i - 1)>> \o split(SubSeq(s, i + 1, Len(s)), ch)

\* Array.prototype.join(ch)
RECURSIVE join(_, _)
join(segs, ch) ==
  IF segs = <<>> THEN <<>>
  ELSE IF Len(segs) = 1 THEN segs[1]
  ELSE segs[1] \o <<ch>> \o join(Tail(segs), ch)

\* String.prototype.indexOf(t) !== -1
contains(s, t) ==
  \E i \in 0..(Len(s) - Len(t)) : SubSeq(s, i + 1, i + Len(t)) = t

endsWith(s, t) ==
  Len(t) <= Len(s) /\ SubSeq(s, Len(s) - Len(t) + 1, Len(s)) = t

\* the elements of a sequence that are not the empty string
RECURSIVE nonEmpty(_)
nonEmpty(segs) ==
  IF segs = <<>> THEN <<>>
  ELSE IF segs[1] = <<>> THEN nonEmpty(Tail(segs))
  ELSE <<segs[1]>> \o nonEmpty(Tail(segs))

(***************************************************************************)
(* Node's posix path module, as the utilities use it                       *)
(***************************************************************************)
\* the working directory relative paths are resolved against
Cwd == <<"/", "w">>

isAbsolute(p) == Len(p) > 0 /\ p[1] = Sep

\* normalizeArray: fold segments, dropping '' and '.', resolving '..'
RECURSIVE normalizeArray(_, _, _)
normalizeArray(segs, acc, allowAbove) ==
  IF segs = <<>> THEN acc
  ELSE LET s == segs[1]
           rest == Tail(segs)
       IN IF s = <<>> \/ s = <<".">>
          THEN normalizeArray(rest, acc, allowAbove)
          ELSE IF s = <<".", ".">>
          THEN IF Len(acc) > 0 /\ acc[Len(acc)] # <<".", ".">>
               THEN normalizeArray(rest, SubSeq(acc, 1, Len(acc) - 1), allowAbove)
               ELSE IF allowAbove
               THEN normalizeArray(rest, Append(acc, s), allowAbove)
               ELSE normalizeArray(rest, acc, allowAbove)
          ELSE normalizeArray(rest, Append(acc, s), allowAbove)

\* path.normalize
pathNormalize(p) ==
  IF p = <<>> THEN <<".">>
  ELSE LET abs == isAbsolute(p)
           trailing == p[Len(p)] = Sep
           body == join(normalizeArray(split(p, Sep), <<>>, ~abs), Sep)
           body1 == IF body = <<>> /\ ~abs THEN <<".">> ELSE body
           body2 == IF body1 # <<>> /\ trailing THEN body1 \o <<Sep>> ELSE body1
       IN IF abs THEN <<Sep>> \o body2 ELSE body2

\* path.join
pathJoin(parts) ==
  LET used == nonEmpty(parts)
  IN IF used = <<>> THEN <<".">> ELSE pathNormalize(join(used, Sep))

\* path.resolve of one path against the working directory
pathResolve(p) ==
  LET full == IF isAbsolute(p) THEN p ELSE Cwd \o <<Sep>> \o p
  IN <<Sep>> \o join(normalizeArray(split(full, Sep), <<>>, FALSE), Sep)

\* length of the longest common prefix of two segment sequences
RECURSIVE commonLen(_, _)
commonLen(a, b) ==
  IF a = <<>> \/ b = <<>> \/ a[1] # b[1] THEN 0
  ELSE 1 + commonLen(Tail(a), Tail(b))

\* path.relative
pathRelative(from, to) ==
  LET f == pathResolve(from)
      t == pathResolve(to)
      fs == nonEmpty(split(f, Sep))
      ts == nonEmpty(split(t, Sep))
      c == commonLen(fs, ts)
      ups == [i \in 1..(Len(fs) - c) |-> <<".", ".">>]
  IN IF f = t THEN <<>>
     ELSE join(ups \o SubSeq(ts, c + 1, Len(ts)), Sep)

\* path.dirname
pathDirname(p) ==
  LET cuts == {i \in 2..Len(p) :
                 p[i] = Sep /\ \E j \in (i + 1)..Len(p) : p[j] # Sep}
      end == CHOOSE i \in cuts : \A k \in cuts : k <= i
  IN IF p = <<>> THEN <<".">>
     ELSE IF cuts = {} THEN (IF isAbsolute(p) THEN <<Sep>> ELSE <<".">>)
     ELSE IF isAbsolute(p) /\ end = 2 THEN <<Sep, Sep>>
     ELSE SubSeq(p, 1, end - 1)

\* the last component of a path, trailing separators ignored
lastComponent(p) ==
  LET segs == nonEmpty(split(p, Sep))
  IN IF segs = <<>> THEN <<>> ELSE segs[Len(segs)]

\* path.extname
pathExtname(p) ==
  LET b == lastComponent(p)
      dots == {i \in 1..Len(b) : b[i] = "."}
      last == CHOOSE i \in dots : \A k \in dots : k <= i
  IN IF dots = {} \/ b = <<".", ".">> THEN <<>>
     ELSE IF last = 1 THEN <<>>
     ELSE SubSeq(b, last, Len(b))

\* path.basename(p, ext)
pathBasename(p, ext) ==
  LET b == lastComponent(p)
  IN IF ext # <<>> /\ endsWith(b, ext) /\ b # ext
     THEN SubSeq(b, 1, Len(b) - Len(ext))
     ELSE b

(***************************************************************************)
(* src/utils/shared.js                                                     *)
(***************************************************************************)
idKeys(idString) == split(idString, ".")

keyname(str) == pathBasename(str, pathExtname(str))

relativePathArray(filePath, fromPath) ==
  IF ~contains(filePath, fromPath) \/ filePath = fromPath
  THEN <<>>
  ELSE LET keys == pathRelative(fromPath, pathDirname(filePath))
       IN IF keys # <<>> THEN split(keys, Sep) ELSE <<>>

HtmlExt == <<".", "h", "t", "m", "l">>

\* resourcePath keeping the resource type of a two-segment id
resourcePathKeepsType(resourceId, dest) ==
  LET keys == idKeys(resourceId)
      subPath == IF Len(keys) > 2 THEN Tail(keys) ELSE keys
      filename == subPath[Len(subPath)] \o HtmlExt
      dirs == SubSeq(subPath, 1, Len(subPath) - 1)
  IN pathNormalize(pathJoin(<<dest, join(dirs, Sep), filename>>))

resourcePath(resourceId, dest) ==
  LET keys == idKeys(resourceId)
      subPath == IF Len(keys) > 1 THEN Tail(keys) ELSE keys
      filename == subPath[Len(subPath)] \o HtmlExt
      dirs == SubSeq(subPath, 1, Len(subPath) - 1)
  IN pathNormalize(pathJoin(<<dest, join(dirs, Sep), filename>>))

(***************************************************************************)
(* utils/parse: matchParser                                                *)
(***************************************************************************)
Undefined == "undefined"
NoPattern == [src |-> <<>>, atEnd |-> FALSE]

\* new RegExp(pattern).test(filepath), for a literal with an optional '$'
regexTest(pattern, filepath) ==
  IF pattern.atEnd THEN endsWith(filepath, pattern.src)
  ELSE contains(filepath, pattern.src)

\* parsers.default, in a mapping given as a sequence of distinct-key rules
defaultRule(parsers) ==
  IF \E i \in 1..Len(parsers) : parsers[i].key = "default"
  THEN parsers[CHOOSE i \in 1..Len(parsers) : parsers[i].key = "default"]
  ELSE [key |-> "default", pattern |-> NoPattern, parseFn |-> Undefined]

\* matchParser letting a later matching rule override an earlier one
matchParserLast(filepath, parsers) ==
  LET hits == {i \in 1..Len(parsers) :
                 /\ parsers[i].pattern.src # <<>>
                 /\ regexTest(parsers[i].pattern, filepath)}
      last == CHOOSE i \in hits : \A k \in hits : k <= i
  IN IF hits # {} THEN parsers[last].parseFn
     ELSE IF defaultRule(parsers).parseFn # Undefined
     THEN defaultRule(parsers).parseFn
     ELSE "wrapContents"

matchParser(filepath, parsers) ==
  LET hits == {i \in 1..Len(parsers) :
                 /\ parsers[i].pattern.src # <<>>
                 /\ regexTest(parsers[i].pattern, filepath)}
      first == CHOOSE i \in hits : \A k \in hits : i <= k
  IN IF hits # {} THEN parsers[first].parseFn
     ELSE IF defaultRule(parsers).parseFn # Undefined
     THEN defaultRule(parsers).parseFn
     ELSE "wrapContents"

\* what a parsing function returns for (contents, filepath)
applyParser(parseFn, contents, filepath) ==
  CASE parseFn = "wrapContents" -> [type |-> "object", contents |-> contents]
    [] parseFn = "parseText" -> [type |-> "string", contents |-> <<"T">> \o contents]
    [] OTHER -> [type |-> "object", contents |-> <<"P">> \o contents,
                 parsedBy |-> parseFn]

(***************************************************************************)
(* Inputs of the utility calls                                             *)
(***************************************************************************)
MaxDepth == 2
MaxIdSegs == 4
MaxRules == 3

Names == {<<"a">>, <<"b">>, <<"a", "b">>}

\* sequences of at most n elements of S
SeqsUpTo(S, n) == UNION {[1..k -> S] : k \in 0..n}

DirPaths == {<<Sep>> \o join(d, Sep) : d \in SeqsUpTo(Names, MaxDepth)}
FileName == <<"f", ".", "t">>
FilePaths == {(IF d = <<Sep>> THEN d ELSE d \o <<Sep>>) \o FileName : d \in DirPaths}
FromPaths == DirPaths \cup Names \cup FilePaths
               \cup {d \o <<Sep>> : d \in DirPaths \ {<<Sep>>}}

Pink == <<"p", "i", "n", "k">>
ComponentsButtonBase ==
  <<"c", "o", "m", "p", "o", "n", "e", "n", "t", "s", ".",
    "b", "u", "t", "t", "o", "n", ".", "b", "a", "s", "e">>
\* dotted ids: one to MaxIdSegs names joined by '.'
ResourceIds ==
  {join(segs, ".") : segs \in SeqsUpTo(Names, MaxIdSegs) \ {<<>>}}
    \cup {Pink, ComponentsButtonBase}
Dests == {<<>>, <<"o">>, <<Sep, "o">>, <<"o", Sep, "p">>, <<"o", Sep>>}

Rules ==
  {[key |-> "html", pattern |-> [src |-> <<".", "h">>, atEnd |-> TRUE],
    parseFn |-> "parseHtml"],
   [key |-> "any", pattern |-> [src |-> <<"a">>, atEnd |-> FALSE],
    parseFn |-> "parseText"],
   [key |-> "broken", pattern |-> [src |-> <<"b">>, atEnd |-> FALSE],
    parseFn |-> Undefined],
   [key |-> "plain", pattern |-> NoPattern, parseFn |-> "parsePlain"],
   [key |-> "default", pattern |-> NoPattern, parseFn |-> "parseDefault"],
   [key |-> "default", pattern |-> NoPattern, parseFn |-> Undefined],
   [key |-> "default", pattern |-> [src |-> <<".", "m">>, atEnd |-> TRUE],
    parseFn |-> "parseDefault"]}
ParserMaps ==
  {ps \in SeqsUpTo(Rules, MaxRules) :
     \A i, j \in 1..Len(ps) : i # j => ps[i].key # ps[j].key}
ParsedPaths == {<<"a", ".", "h">>, <<"b", ".", "h">>, <<"a", ".", "m">>,
                <<"c", ".", "m">>, <<"c", ".", "h", "x">>}

(***************************************************************************)
(* Utility calls                                                           *)
(***************************************************************************)
NoCall == [fn |-> "none", args |-> <<>>]

UtilIdle == call = NoCall /\ ret = <<>>

CallResourcePath ==
  /\ call = NoCall
  /\ \E id \in ResourceIds, dest \in Dests :
    /\ call' = [fn |-> "resourcePath", args |-> <<id, dest>>]
    /\ ret' = resourcePath(id, dest)

CallRelativePathArray ==
  /\ call = NoCall
  /\ \E f \in FilePaths, from \in FromPaths :
    /\ call' = [fn |-> "relativePathArray", args |-> <<f, from>>]
    /\ ret' = relativePathArray(f, from)

CallMatchParser ==
  /\ call = NoCall
  /\ \E f \in ParsedPaths, ps \in ParserMaps :
    /\ call' = [fn |-> "matchParser", args |-> <<f, ps>>]
    /\ ret' = matchParser(f, ps)

(***************************************************************************)
(* utils/parse: keyname, readFiles, readFilesKeyed                         *)
(***************************************************************************)
EmptyObj == [k \in {} |-> {}]

\* obj[k] = v
put(obj, k, v) == [x \in DOMAIN obj \cup {k} |-> IF x = k THEN v ELSE obj[x]]

LeadingChars == {"0", "1", "2", "3", "4", "5", "6", "7", "8", "9", "|", ".", "-"}

\* str.replace(/^[0-9|\.\-]+/, '')
RECURSIVE removeLeadingNumbers(_)
removeLeadingNumbers(str) ==
  IF str # <<>> /\ str[1] \in LeadingChars
  THEN removeLeadingNumbers(Tail(str))
  ELSE str

\* keyname of the reader: basename, whitespace to '-', leading numbers off
keynameParse(str, stripNumbers) ==
  LET b == pathBasename(str, pathExtname(str))
      name == [i \in 1..Len(b) |-> IF b[i] = " " THEN "-" ELSE b[i]]
  IN IF stripNumbers THEN removeLeadingNumbers(name) ELSE name

\* the text readFile yields for a path
rawText(filepath) == <<"#">> \o lastComponent(filepath)

ReaderParsers ==
  <<[key |-> "html", pattern |-> [src |-> <<".", "h">>, atEnd |-> TRUE],
     parseFn |-> "parseHtml"],
    [key |-> "notes", pattern |-> [src |-> <<".", "t">>, atEnd |-> TRUE],
     parseFn |-> "parseText"]>>

\* the .then callback of one read: parse, wrap a string, attach the path
fileRecord(filepath, fileData) ==
  LET parsed == applyParser(matchParser(filepath, ReaderParsers), fileData, filepath)
      obj == [k \in DOMAIN parsed \ {"type"} |-> parsed[k]]
  IN put(obj, "path", filepath)

\* a batch collected in the order the reads completed
promiseAllByCompletion(values, completion) ==
  [i \in 1..Len(completion) |-> values[completion[i]]]

\* Promise.all: the values of the promises, in the order of the input array
promiseAll(values, completion) == values

\* the loop of readFilesKeyed keeping the first file of a key
RECURSIVE keyFilesFirst(_, _, _)
keyFilesFirst(allFileData, keyedFileData, stripNumbers) ==
  IF allFileData = <<>> THEN keyedFileData
  ELSE LET aFile == allFileData[1]
           k == keynameParse(aFile.path, stripNumbers)
       IN keyFilesFirst(Tail(allFileData),
                        IF k \in DOMAIN keyedFileData THEN keyedFileData
                        ELSE put(keyedFileData, k, aFile),
                        stripNumbers)

\* the loop of readFilesKeyed over allFileData
RECURSIVE keyFiles(_, _, _)
keyFiles(allFileData, keyedFileData, stripNumbers) ==
  IF allFileData = <<>> THEN keyedFileData
  ELSE LET aFile == allFileData[1]
       IN keyFiles(Tail(allFileData),
                   put(keyedFileData, keynameParse(aFile.path, stripNumbers), aFile),
                   stripNumbers)

MaxFiles == 3

SrcRoot == <<Sep, "s">>
GlobFiles ==
  {SrcRoot \o <<Sep, "a", ".", "h">>,
   SrcRoot \o <<Sep, "0", "1", "-", "a", ".", "h">>,
   SrcRoot \o <<Sep, "a", ".", "t">>,
   SrcRoot \o <<Sep, "b", " ", "c", ".", "m">>,
   SrcRoot \o <<Sep, "c", Sep, "b", "-", "c", ".", "h">>}

\* orders in which a glob may return at most MaxFiles distinct files
GlobResults ==
  {ps \in SeqsUpTo(GlobFiles, MaxFiles) :
     \A i, j \in 1..Len(ps) : i # j => ps[i] # ps[j]}

ReadIdle ==
  /\ rstate = "idle"
  /\ paths = <<>>
  /\ pending = {}
  /\ slots = <<>>
  /\ done = <<>>
  /\ resolved = <<>>
  /\ keyed = [obj |-> EmptyObj, stripNumbers |-> TRUE]

\* getFiles resolves; one read per path is issued, all at once
GetFiles ==
  /\ rstate = "idle"
  /\ \E ps \in GlobResults :
       /\ paths' = ps
       /\ pending' = 1..Len(ps)
       /\ slots' = [i \in 1..Len(ps) |-> <<>>]
  /\ rstate' = "reading"
  /\ UNCHANGED <<done, resolved, keyed>>

\* one read completes and its callback builds the record
ReadDone ==
  /\ rstate \in {"reading", "rejected"}
  /\ \E i \in pending :
       /\ pending' = pending \ {i}
       /\ slots' = [slots EXCEPT ![i] = fileRecord(paths[i], rawText(paths[i]))]
       /\ done' = Append(done, i)
  /\ UNCHANGED <<rstate, paths, resolved, keyed>>

\* one read (or its parser) fails: the batch is rejected
ReadFail ==
  /\ rstate \in {"reading", "rejected"}
  /\ \E i \in pending : pending' = pending \ {i}
  /\ rstate' = "rejected"
  /\ UNCHANGED <<paths, slots, done, resolved, keyed>>

\* every read has been fulfilled: readFiles resolves
ResolveAll ==
  /\ rstate = "reading"
  /\ pending = {}
  /\ resolved' = promiseAll(slots, done)
  /\ rstate' = "resolved"
  /\ UNCHANGED <<paths, pending, slots, done, keyed>>

\* the .then of readFilesKeyed
ReadFilesKeyed ==
  /\ rstate = "resolved"
  /\ \E strip \in BOOLEAN :
       keyed' = [obj |-> keyFiles(resolved, EmptyObj, strip), stripNumbers |-> strip]
  /\ rstate' = "keyed"
  /\ UNCHANGED <<paths, pending, slots, done, resolved>>

(***************************************************************************)
(* src/utils/shared.js: titleCase                                          *)
(***************************************************************************)
Lower == <<"a", "b", "c", "d", "e", "f", "g", "h", "i", "j", "k", "l", "m",
           "n", "o", "p", "q", "r", "s", "t", "u", "v", "w", "x", "y", "z">>
Upper == <<"A", "B", "C", "D", "E", "F", "G", "H", "I", "J", "K", "L", "M",
           "N", "O", "P", "Q", "R", "S", "T", "U", "V", "W", "X", "Y", "Z">>
Digits == <<"0", "1", "2", "3", "4", "5", "6", "7", "8", "9">>

indexIn(seq, ch) ==
  IF \E i \in 1..Len(seq) : seq[i] = ch
  THEN CHOOSE i \in 1..Len(seq) : seq[i] = ch
  ELSE 0

toLowerCase(ch) == IF indexIn(Upper, ch) > 0 THEN Lower[indexIn(Upper, ch)] ELSE ch
toUpperCase(ch) == IF indexIn(Lower, ch) > 0 THEN Upper[indexIn(Lower, ch)] ELSE ch

\* \w
isWordChar(ch) ==
  indexIn(Lower, ch) > 0 \/ indexIn(Upper, ch) > 0 \/ indexIn(Digits, ch) > 0 \/ ch = "_"

titleCase(str) ==
  LET low == [i \in 1..Len(str) |-> toLowerCase(str[i])]
      spaced == [i \in 1..Len(str) |->
                   IF low[i] \in {"-", "_"} THEN " " ELSE low[i]]
      \* a match of \w\S* starts at the first word character of a run of
      \* non-space characters
      starts(i) == /\ isWordChar(spaced[i])
                   /\ \A j \in 1..(i - 1) :
                        (\A k \in j..(i - 1) : spaced[k] # " ")
                          => ~isWordChar(spaced[j])
  IN [i \in 1..Len(str) |-> IF starts(i) THEN toUpperCase(spaced[i]) ELSE spaced[i]]

(***************************************************************************)
(* utils/object: deepObj, and reading and writing through a key path       *)
(***************************************************************************)
\* the object deepObj leaves behind: every key of the path exists
RECURSIVE deepObj(_, _)
deepObj(pathKeys, obj) ==
  IF pathKeys = <<>> THEN obj
  ELSE LET curr == pathKeys[1]
           prev == IF curr \in DOMAIN obj THEN obj[curr] ELSE EmptyObj
       IN put(obj, curr, deepObj(Tail(pathKeys), prev))

\* the reference deepObj returns
RECURSIVE deepRef(_, _)
deepRef(pathKeys, obj) ==
  IF pathKeys = <<>> THEN obj
  ELSE deepRef(Tail(pathKeys), obj[pathKeys[1]])

\* assignment through the reference deepObj returned
RECURSIVE assignAt(_, _, _, _)
assignAt(obj, pathKeys, k, v) ==
  IF pathKeys = <<>> THEN put(obj, k, v)
  ELSE put(obj, pathKeys[1], assignAt(obj[pathKeys[1]], Tail(pathKeys), k, v))

(***************************************************************************)
(* parse/patterns: the pattern tree builder                                *)
(***************************************************************************)
RootKey == <<"p", "a", "t", "t", "e", "r", "n", "s">>
COLLECTION == <<"c", "o", "l", "l", "e", "c", "t", "i", "o", "n">>
Md == <<".", "m", "d">>

\* options.src.patterns.basedir
Basedir == SrcRoot

NoError == [property |-> "none", file |-> <<>>]
NoTree == [absent |-> TRUE]

PlainData == [hidden |-> FALSE, definesId |-> FALSE]

\* the pattern files of the source tree, as the reader hands them over
PatternFiles ==
  {[path |-> Basedir \o <<Sep, "p">> \o HtmlExt, data |-> PlainData],
   [path |-> Basedir \o <<Sep, "c", Sep, "a">> \o HtmlExt, data |-> PlainData],
   [path |-> Basedir \o <<Sep, "c", Sep, "b">> \o HtmlExt,
    data |-> [hidden |-> TRUE, definesId |-> FALSE]],
   [path |-> Basedir \o <<Sep, "c", Sep, "c">> \o HtmlExt, data |-> PlainData],
   [path |-> Basedir \o <<Sep, "c", Sep, "d">> \o HtmlExt, data |-> PlainData],
   [path |-> Basedir \o <<Sep, "c", Sep, "b">> \o Md, data |-> PlainData],
   [path |-> Basedir \o <<Sep, "c", Sep, "g", Sep, "h">> \o HtmlExt, data |-> PlainData],
   [path |-> Basedir \o <<Sep, "c", Sep, "g", ".", "h">> \o HtmlExt, data |-> PlainData],
   [path |-> Basedir \o <<Sep, "x">> \o HtmlExt,
    data |-> [hidden |-> FALSE, definesId |-> TRUE]],
   [path |-> Basedir \o <<Sep, "e", Sep, "y">> \o HtmlExt, data |-> PlainData],
   [path |-> Basedir \o <<Sep, "f", Sep, "z">> \o HtmlExt, data |-> PlainData]}

\* the collection-level front matter of a directory
collectionData(segs) ==
  CASE segs = <<<<"c">>>> -> [order |-> <<<<"d">>, <<"a">>>>, defines |-> "none"]
    [] segs = <<<<"e">>>> -> [order |-> <<>>, defines |-> "items"]
    [] segs = <<<<"f">>>> -> [order |-> <<>>, defines |-> "patterns"]
    [] OTHER -> [order |-> <<>>, defines |-> "none"]

\* the dotted id of a file: root key, directories, own key
resourceId(filePath) ==
  join(<<RootKey>> \o relativePathArray(filePath, Basedir) \o <<keyname(filePath)>>, ".")

\* the check without the collection-level 'patterns'
reservedPropertyNoPatterns(rec) ==
  IF rec.data.definesId THEN "id"
  ELSE IF collectionData(relativePathArray(rec.path, Basedir)).defines = "items"
  THEN "items"
  ELSE "none"

\* the reserved property a record brings along, or "none"
reservedProperty(rec) ==
  IF rec.data.definesId THEN "id"
  ELSE collectionData(relativePathArray(rec.path, Basedir)).defines

buildPattern(rec) ==
  [id |-> resourceId(rec.path),
   name |-> titleCase(keyname(rec.path)),
   data |-> [hidden |-> rec.data.hidden],
   contents |-> rawText(rec.path),
   path |-> rec.path,
   resourceType |-> "pattern"]

collectionStub(segs) ==
  [name |-> titleCase(IF segs = <<>> THEN lastComponent(Basedir) ELSE segs[Len(segs)]),
   items |-> EmptyObj,
   patterns |-> <<>>,
   resourceType |-> "collection"]

\* steps 1 to 4 for one record; a record whose key is already among the
\* items of its collection takes the place of the earlier one
placeRecord(t, rec) ==
  LET segs == relativePathArray(rec.path, Basedir)
      t1 == deepObj(segs, t)
      ns == deepRef(segs, t1)
      coll == IF COLLECTION \in DOMAIN ns THEN ns[COLLECTION] ELSE collectionStub(segs)
      coll1 == [coll EXCEPT !.items = put(coll.items, keyname(rec.path), buildPattern(rec))]
  IN assignAt(t1, segs, COLLECTION, coll1)

\* natural order of keys: character by character in code order
CharOrder == <<" ", "-", ".">> \o Digits \o Upper \o <<"_">> \o Lower

RECURSIVE keyBefore(_, _)
keyBefore(a, b) ==
  IF a = <<>> THEN b # <<>>
  ELSE IF b = <<>> THEN FALSE
  ELSE IF a[1] = b[1] THEN keyBefore(Tail(a), Tail(b))
  ELSE indexIn(CharOrder, a[1]) < indexIn(CharOrder, b[1])

RECURSIVE naturalSort(_)
naturalSort(keys) ==
  IF keys = {} THEN <<>>
  ELSE LET m == CHOOSE k \in keys : \A o \in keys \ {k} : keyBefore(k, o)
       IN <<m>> \o naturalSort(keys \ {m})

RECURSIVE selectSeq(_, _)
selectSeq(seq, keep) ==
  IF seq = <<>> THEN <<>>
  ELSE IF seq[1] \in keep THEN <<seq[1]>> \o selectSeq(Tail(seq), keep)
  ELSE selectSeq(Tail(seq), keep)

\* the ordered view without the hidden filter
buildOrderedPatternsAll(items, order) ==
  LET listed == selectSeq(order, DOMAIN items)
      unlisted == naturalSort(DOMAIN items \ {order[i] : i \in 1..Len(order)})
      keys == listed \o unlisted
  IN [i \in 1..Len(keys) |-> items[keys[i]]]

\* the ordered, filtered view of a collection's items
buildOrderedPatterns(items, order) ==
  LET listed == selectSeq(order, DOMAIN items)
      unlisted == naturalSort(DOMAIN items \ {order[i] : i \in 1..Len(order)})
      visible == {k \in DOMAIN items : ~items[k].data.hidden}
      keys == selectSeq(listed \o unlisted, visible)
  IN [i \in 1..Len(keys) |-> items[keys[i]]]

\* after all records are placed: order every collection of the tree
RECURSIVE orderCollections(_, _)
orderCollections(node, segs) ==
  [k \in DOMAIN node |->
     IF k = COLLECTION
     THEN [node[k] EXCEPT
             !.patterns = buildOrderedPatterns(node[k].items, collectionData(segs).order)]
     ELSE orderCollections(node[k], Append(segs, k))]

(***************************************************************************)
(* render/collections: the collection renderer                             *)
(***************************************************************************)
CONTENTS == <<"c", "o", "n", "t", "e", "n", "t", "s">>
\* options.layouts.collection
LayoutKey == <<"l", ".", "c">>
LayoutBody == <<"<", "l", ">">>
\* the value of a property that is not there
UndefinedBody == <<"undefined">>

TemplateTrees ==
  {[k \in {<<"l">>} |-> [j \in {<<"c">>} |-> [c \in {CONTENTS} |-> LayoutBody]]],
   [k \in {<<"l">>} |-> EmptyObj]}

\* the string the template engine returns for a layout body and a context
applyTemplate(layoutBody, context) == layoutBody \o <<":">> \o context.name

\* renderCollection also removing the contents of the individual patterns
renderCollectionDropsContents(patterns, tpl) ==
  LET layoutObj == deepRef(split(LayoutKey, "."), deepObj(split(LayoutKey, "."), tpl))
      layoutContents == IF CONTENTS \in DOMAIN layoutObj THEN layoutObj[CONTENTS]
                        ELSE UndefinedBody
      collection == patterns[COLLECTION]
      rendered == applyTemplate(layoutContents, collection)
      bare == [k \in DOMAIN collection.items |->
                 [f \in DOMAIN collection.items[k] \ {"contents"} |->
                    collection.items[k][f]]]
  IN put(patterns, COLLECTION,
         [f \in DOMAIN collection \cup {"contents"} |->
            IF f = "contents" THEN rendered
            ELSE IF f = "items" THEN bare
            ELSE collection[f]])

\* the layout is looked up with deepObj, which creates the keys of the
\* path that are missing; a layout object without contents yields undefined
renderCollection(patterns, tpl) ==
  LET layoutObj == deepRef(split(LayoutKey, "."), deepObj(split(LayoutKey, "."), tpl))
      layoutContents == IF CONTENTS \in DOMAIN layoutObj THEN layoutObj[CONTENTS]
                        ELSE UndefinedBody
      collection == patterns[COLLECTION]
      rendered == applyTemplate(layoutContents, collection)
  IN put(patterns, COLLECTION,
         [f \in DOMAIN collection \cup {"contents"} |->
            IF f = "contents" THEN rendered ELSE collection[f]])

\* a value that is not a container, as a child of a node: a string, a
\* number or null
SCALAR == <<"#scalar">>
stringNode(chars) == [k \in {SCALAR} |-> [type |-> "string", value |-> chars]]
numberNode == [k \in {SCALAR} |-> [type |-> "number", value |-> <<>>]]
nullNode == [k \in {SCALAR} |-> [type |-> "null", value |-> <<>>]]

isContainer(node) == SCALAR \notin DOMAIN node

\* the keys for..in enumerates on an object, in the order the keys were
\* inserted (first those of 'order', in that order)
forInKeys(node, order) ==
  selectSeq(order, DOMAIN node)
    \o naturalSort(DOMAIN node \ {order[i] : i \in 1..Len(order)})

\* depth of calls at which the engine throws RangeError
StackLimit == 8

NoWalk == [node |-> EmptyObj, calls |-> 0, scalars |-> 0, overflow |-> FALSE]

\* walkCollections at call depth 'depth'. The outcome has the node as the
\* walk leaves it, the number of applyTemplate calls, the number of
\* values entered that are not containers, and whether the stack overflowed.
\* for..in on a string enumerates its indices and each index holds a
\* one-character string, on which the walk is called again; on a number or
\* null it enumerates nothing.
RECURSIVE walkCollections(_, _, _, _)
RECURSIVE walkKeys(_, _, _, _, _, _)
walkKeys(patterns, keys, tpl, order, depth, acc) ==
  IF keys = <<>> \/ acc.overflow THEN acc
  ELSE LET patternKey == keys[1]
       IN IF patternKey = COLLECTION
          THEN walkKeys(patterns, Tail(keys), tpl, order, depth,
                        [acc EXCEPT !.node = renderCollection(acc.node, tpl),
                                    !.calls = @ + 1])
          ELSE LET r == walkCollections(patterns[patternKey], tpl, order, depth + 1)
               IN walkKeys(patterns, Tail(keys), tpl, order, depth,
                           [node |-> put(acc.node, patternKey, r.node),
                            calls |-> acc.calls + r.calls,
                            scalars |-> acc.scalars + r.scalars,
                            overflow |-> r.overflow])

walkCollections(patterns, tpl, order, depth) ==
  IF depth > StackLimit
  THEN [NoWalk EXCEPT !.node = patterns, !.overflow = TRUE]
  ELSE IF isContainer(patterns)
  THEN walkKeys(patterns, forInKeys(patterns, order), tpl, order, depth,
                [NoWalk EXCEPT !.node = patterns])
  ELSE IF patterns[SCALAR].type = "string" /\ patterns[SCALAR].value # <<>>
  THEN LET r == walkCollections(stringNode(<<patterns[SCALAR].value[1]>>),
                                tpl, order, depth + 1)
       IN [node |-> patterns, calls |-> 0, scalars |-> 1 + r.scalars,
           overflow |-> r.overflow]
  ELSE [NoWalk EXCEPT !.node = patterns, !.scalars = 1]

renderCollections(patterns, tpl, order) == walkCollections(patterns, tpl, order, 1)

(***************************************************************************)
(* Building and rendering, step by step                                    *)
(***************************************************************************)
MaxRecords == 4

RecordSeqs ==
  {rs \in SeqsUpTo(PatternFiles, MaxRecords) :
     \A i, j \in 1..Len(rs) : i # j => rs[i] # rs[j]}

BuildIdle ==
  /\ records = <<>>
  /\ idx = 0
  /\ tree = EmptyObj
  /\ phase = "idle"
  /\ error = NoError
  /\ built = NoTree
  /\ templates = EmptyObj
  /\ walk = [order |-> <<>>, calls |-> 0, scalars |-> 0]

BuildInit ==
  /\ records \in RecordSeqs
  /\ templates \in TemplateTrees
  /\ idx = 0
  /\ tree = EmptyObj
  /\ phase = "building"
  /\ error = NoError
  /\ built = NoTree
  /\ walk = [order |-> <<>>, calls |-> 0, scalars |-> 0]

\* the next record is placed in the tree
PlaceRecord ==
  /\ phase = "building"
  /\ idx < Len(records)
  /\ reservedProperty(records[idx + 1]) = "none"
  /\ tree' = placeRecord(tree, records[idx + 1])
  /\ idx' = idx + 1
  /\ UNCHANGED <<records, phase, error, built, templates, walk>>

\* the next record brings a reserved property: the build fails
RejectRecord ==
  /\ phase = "building"
  /\ idx < Len(records)
  /\ reservedProperty(records[idx + 1]) # "none"
  /\ error' = [property |-> reservedProperty(records[idx + 1]),
               file |-> records[idx + 1].path]
  /\ phase' = "failed"
  /\ idx' = idx + 1
  /\ UNCHANGED <<records, tree, built, templates, walk>>

\* every record is placed: order the collections and hand the tree over
FinishBuild ==
  /\ phase = "building"
  /\ idx = Len(records)
  /\ tree' = orderCollections(tree, <<>>)
  /\ built' = tree'
  /\ phase' = "built"
  /\ UNCHANGED <<records, idx, error, templates, walk>>

\* renderCollections refusing to render when the layout cannot be found
RenderCollectionsChecksLayout ==
  /\ phase = "built"
  /\ LET r == renderCollections(tree, templates, walk.order)
         layoutObj == deepRef(split(LayoutKey, "."),
                              deepObj(split(LayoutKey, "."), templates))
         missing == r.calls > 0 /\ CONTENTS \notin DOMAIN layoutObj
     IN /\ tree' = IF missing THEN tree ELSE r.node
        /\ templates' = IF r.calls > 0
                        THEN deepObj(split(LayoutKey, "."), templates)
                        ELSE templates
        /\ walk' = [walk EXCEPT !.calls = r.calls, !.scalars = r.scalars]
        /\ phase' = IF missing THEN "failed"
                    ELSE IF r.overflow THEN "overflowed" ELSE "rendered"
  /\ UNCHANGED <<records, idx, error, built>>

\* renderCollections runs over the tree; a RangeError of the engine ends it
RenderCollections ==
  /\ phase = "built"
  /\ LET r == renderCollections(tree, templates, walk.order)
     IN /\ tree' = r.node
        /\ templates' = IF r.calls > 0
                        THEN deepObj(split(LayoutKey, "."), templates)
                        ELSE templates
        /\ walk' = [walk EXCEPT !.calls = r.calls, !.scalars = r.scalars]
        /\ phase' = IF r.overflow THEN "overflowed" ELSE "rendered"
  /\ UNCHANGED <<records, idx, error, built>>

(***************************************************************************)
(* Specifications                                                          *)
(***************************************************************************)
\* the builder and the renderer
Init == UtilIdle /\ ReadIdle /\ BuildInit

Next ==
  \/ PlaceRecord /\ UNCHANGED utilVars /\ UNCHANGED readVars
  \/ RejectRecord /\ UNCHANGED utilVars /\ UNCHANGED readVars
  \/ FinishBuild /\ UNCHANGED utilVars /\ UNCHANGED readVars
  \/ RenderCollections /\ UNCHANGED utilVars /\ UNCHANGED readVars

Spec == Init /\ [][Next]_vars

\* the utilities, called with inputs from bounded sets
UtilInit == UtilIdle /\ ReadIdle /\ BuildIdle

UtilNext ==
  \/ CallResourcePath /\ UNCHANGED readVars /\ UNCHANGED buildVars
  \/ CallRelativePathArray /\ UNCHANGED readVars /\ UNCHANGED buildVars
  \/ CallMatchParser /\ UNCHANGED readVars /\ UNCHANGED buildVars

UtilSpec == UtilInit /\ [][UtilNext]_vars

\* the file tree reader
ReadInit == UtilIdle /\ ReadIdle /\ BuildIdle

ReadNext ==
  \/ GetFiles /\ UNCHANGED utilVars /\ UNCHANGED buildVars
  \/ ReadDone /\ UNCHANGED utilVars /\ UNCHANGED buildVars
  \/ ReadFail /\ UNCHANGED utilVars /\ UNCHANGED buildVars
  \/ ResolveAll /\ UNCHANGED utilVars /\ UNCHANGED buildVars
  \/ ReadFilesKeyed /\ UNCHANGED utilVars /\ UNCHANGED buildVars

ReadSpec == ReadInit /\ [][ReadNext]_vars

\* the renderer alone, on trees that also hold values that are no containers
MaxTreeDepth == 2

WalkCollection ==
  [name |-> <<"N">>, items |-> EmptyObj, patterns |-> <<>>,
   resourceType |-> "collection"]

Scalars == {stringNode(<<"x", "y">>), stringNode(<<>>), numberNode, nullNode}

\* objects with at most the keys a, b and collection, nested through a
RECURSIVE WalkTrees(_)
WalkTrees(depth) ==
  IF depth = 0 THEN {EmptyObj}
  ELSE LET as == {EmptyObj} \cup
                 {[k \in {<<"a">>} |-> v] : v \in Scalars \cup WalkTrees(depth - 1)}
           bs == {EmptyObj} \cup {[k \in {<<"b">>} |-> v] : v \in Scalars}
           cs == {EmptyObj, [k \in {COLLECTION} |-> WalkCollection]}
       IN {[k \in DOMAIN a \cup DOMAIN b \cup DOMAIN c |->
              IF k \in DOMAIN a THEN a[k]
              ELSE IF k \in DOMAIN b THEN b[k] ELSE c[k]] :
             a \in as, b \in bs, c \in cs}

KeyOrders ==
  {o \in [1..3 -> {<<"a">>, <<"b">>, COLLECTION}] :
     \A i, j \in 1..3 : i # j => o[i] # o[j]}

WalkInit ==
  /\ UtilIdle
  /\ ReadIdle
  /\ records = <<>>
  /\ idx = 0
  /\ error = NoError
  /\ phase = "built"
  /\ tree \in WalkTrees(MaxTreeDepth)
  /\ built = tree
  /\ templates \in TemplateTrees
  /\ walk \in {[order |-> o, calls |-> 0, scalars |-> 0] : o \in KeyOrders}

WalkNext == RenderCollections /\ UNCHANGED utilVars /\ UNCHANGED readVars

WalkSpec == WalkInit /\ [][WalkNext]_vars

(***************************************************************************)
(* Properties of the utilities                                             *)
(***************************************************************************)
\* the components of a path
components(p) == nonEmpty(split(p, Sep))

\* the path the id and dest stand for: the directories of dest, then the
\* id's segments but the first (kept when it is the only one), the last
\* one as the file name
ResourcePathOf(id, dest) ==
  LET segs == split(id, ".")
      kept == IF Len(segs) > 1 THEN SubSeq(segs, 2, Len(segs)) ELSE segs
      file == kept[Len(kept)] \o <<".", "h", "t", "m", "l">>
      dirs == SubSeq(kept, 1, Len(kept) - 1)
      whole == join(components(dest) \o dirs \o <<file>>, Sep)
  IN IF isAbsolute(dest) THEN <<Sep>> \o whole ELSE whole

\* C6: for an id of non-empty segments, resourcePath(id, dest) drops the first segment of id exactly when
\* there is more than one, names the file after the last segment plus
\* '.html' and puts it in the directories the segments before it name,
\* under dest; 'pink' gives 'pink.html' and 'components.button.base'
\* gives 'button/base.html'.
C6_ResourcePath ==
  call.fn = "resourcePath" =>
    /\ ret = ResourcePathOf(call.args[1], call.args[2])
    /\ (call.args = <<Pink, <<>>>> =>
          ret = <<"p", "i", "n", "k", ".", "h", "t", "m", "l">>)
    /\ (call.args = <<ComponentsButtonBase, <<>>>> =>
          ret = <<"b", "u", "t", "t", "o", "n", "/", "b", "a", "s", "e",
                  ".", "h", "t", "m", "l">>)

\* C6 witness: an id of three segments was resolved under a destination
C6_Witness ==
  /\ call.fn = "resourcePath"
  /\ call.args = <<<<"a", ".", "b", ".", "a">>, <<"o", Sep, "p">>>>
  /\ ret = <<"o", Sep, "p", Sep, "b", Sep, "a">> \o <<".", "h", "t", "m", "l">>

\* fromPath is a proper ancestor of filePath, component by component
IsAncestor(fromPath, filePath) ==
  LET fs == components(fromPath)
      ds == components(filePath)
  IN /\ fromPath # filePath
     /\ isAbsolute(fromPath) = isAbsolute(filePath)
     /\ Len(fs) < Len(ds)
     /\ SubSeq(ds, 1, Len(fs)) = fs

\* the directories strictly between fromPath and the file
Between(fromPath, filePath) ==
  LET fs == components(fromPath)
      ds == components(filePath)
  IN SubSeq(ds, Len(fs) + 1, Len(ds) - 1)

\* C7: relativePathArray(filePath, fromPath) returns the directory names
\* strictly between fromPath and the directory of filePath, and the empty
\* sequence whenever fromPath is not a proper ancestor of filePath or
\* equals it.
C7_RelativePathArray ==
  call.fn = "relativePathArray" =>
    ret = IF IsAncestor(call.args[2], call.args[1])
          THEN Between(call.args[2], call.args[1])
          ELSE <<>>

\* the rules of a mapping whose pattern matches the path
Matching(filepath, parsers) ==
  {i \in 1..Len(parsers) :
     /\ parsers[i].pattern # NoPattern
     /\ IF parsers[i].pattern.atEnd
        THEN endsWith(filepath, parsers[i].pattern.src)
        ELSE contains(filepath, parsers[i].pattern.src)}

\* C8: matchParser returns the parseFn of the first rule, in mapping
\* order, whose pattern matches the path; when none matches, the parseFn
\* of the default rule if there is one, and otherwise a function that
\* maps raw text to {contents: text}.
C8_MatchParser ==
  call.fn = "matchParser" =>
    LET f == call.args[1]
        ps == call.args[2]
        m == Matching(f, ps)
        defaults == {i \in 1..Len(ps) :
                       ps[i].key = "default" /\ ps[i].parseFn # Undefined}
    IN IF m # {}
       THEN \E i \in m : ret = ps[i].parseFn /\ \A j \in m : i <= j
       ELSE IF defaults # {}
       THEN \E i \in defaults : ret = ps[i].parseFn
       ELSE \A text \in {<<>>, <<"x">>, <<"x", "y">>} :
              applyParser(ret, text, f) = [type |-> "object", contents |-> text]

\* C8 witness: two rules with different functions match, the first is taken
C8_Witness ==
  /\ call.fn = "matchParser"
  /\ Cardinality(Matching(call.args[1], call.args[2])) >= 2
  /\ \E i, j \in Matching(call.args[1], call.args[2]) :
       /\ i < j
       /\ call.args[2][i].parseFn # call.args[2][j].parseFn
       /\ ret = call.args[2][i].parseFn

(***************************************************************************)
(* Properties of the reader                                                *)
(***************************************************************************)
Range(seq) == {seq[i] : i \in 1..Len(seq)}

\* C9: readFiles issues one read per matched path, all at once, and
\* resolves only after every read has completed; whatever the order of
\* completion, the resolved sequence has one record per path, each with
\* its own path, in the order of the glob resolution.
C9_ReadFiles ==
  /\ rstate = "reading" =>
       /\ pending \cup Range(done) = 1..Len(paths)
       /\ pending \cap Range(done) = {}
  /\ rstate \in {"resolved", "keyed"} =>
       /\ pending = {}
       /\ Range(done) = 1..Len(paths)
       /\ Len(done) = Len(paths)
       /\ Len(resolved) = Len(paths)
       /\ \A i \in 1..Len(paths) :
            /\ resolved[i].path = paths[i]
            /\ resolved[i] = fileRecord(paths[i], rawText(paths[i]))

\* C9 witness: the reads completed in another order than they were issued
C9_Witness ==
  /\ rstate = "resolved"
  /\ Len(paths) >= 3
  /\ done[1] > done[2]
  /\ \A i \in 1..Len(paths) : resolved[i].path = paths[i]

\* C10: readFilesKeyed returns one entry per distinct key of the records
\* of readFiles; of the files with the same key, the entry holds the one
\* that is last in resolution order, and no error is raised.
C10_ReadFilesKeyed ==
  rstate = "keyed" =>
    LET key(i) == keynameParse(paths[i], keyed.stripNumbers)
    IN /\ DOMAIN keyed.obj = {key(i) : i \in 1..Len(paths)}
       /\ \A i \in 1..Len(paths) :
            (\A j \in (i + 1)..Len(paths) : key(j) # key(i))
              => keyed.obj[key(i)] = resolved[i]

\* C10 witness: two files had the same key and the later one was kept
C10_Witness ==
  /\ rstate = "keyed"
  /\ \E i, j \in 1..Len(paths) :
       /\ i < j
       /\ keynameParse(paths[i], keyed.stripNumbers) =
            keynameParse(paths[j], keyed.stripNumbers)
       /\ keyed.obj[keynameParse(paths[j], keyed.stripNumbers)].path = paths[j]
  /\ Cardinality(DOMAIN keyed.obj) < Len(paths)

(***************************************************************************)
(* Properties of the builder                                               *)
(***************************************************************************)
\* every pattern of a tree, with its key and the key path of its collection
RECURSIVE entries(_, _)
entries(node, segs) ==
  UNION {IF k = COLLECTION
         THEN {[segs |-> segs, key |-> i, pat |-> node[k].items[i]] :
                 i \in DOMAIN node[k].items}
         ELSE entries(node[k], Append(segs, k)) : k \in DOMAIN node}

\* every collection of a tree, with its key path
RECURSIVE collections(_, _)
collections(node, segs) ==
  UNION {IF k = COLLECTION
         THEN {[segs |-> segs, coll |-> node[k]]}
         ELSE collections(node[k], Append(segs, k)) : k \in DOMAIN node}

\* the directories between the source root and a file
DirsOf(filePath) ==
  SubSeq(components(filePath), Len(components(Basedir)) + 1,
         Len(components(filePath)) - 1)

\* C1: when the builder has completed, every pattern's id is the dot-join
\* of the root key, the directories between the source root and its file
\* and its own key, and no two patterns of the tree have the same id.
C1_PatternIds ==
  phase = "built" =>
    LET es == entries(tree, <<>>)
    IN /\ \A e \in es :
            /\ e.segs = DirsOf(e.pat.path)
            /\ e.pat.id = join(<<RootKey>> \o DirsOf(e.pat.path) \o <<e.key>>, ".")
       /\ \A e1, e2 \in es : e1 # e2 => e1.pat.id # e2.pat.id

\* does record i bring a reserved property?
Offending(i) ==
  \/ records[i].data.definesId
  \/ collectionData(DirsOf(records[i].path)).defines \in {"items", "patterns"}

OffendingProperty(i) ==
  IF records[i].data.definesId THEN "id"
  ELSE collectionData(DirsOf(records[i].path)).defines

\* C2: a record whose data defines id, or whose collection's data defines
\* items or patterns, fails the whole build with an error naming that
\* property; no record after it is placed and no tree is handed over.
C2_ReservedProperty ==
  /\ phase = "failed" =>
       /\ idx \in 1..Len(records)
       /\ Offending(idx)
       /\ \A j \in 1..(idx - 1) : ~Offending(j)
       /\ error.property = OffendingProperty(idx)
       /\ error.file = records[idx].path
       /\ built = NoTree
       /\ {e.pat.path : e \in entries(tree, <<>>)}
            \subseteq {records[j].path : j \in 1..(idx - 1)}
  /\ (\E i \in 1..idx : Offending(i)) => phase = "failed"
  /\ phase \in {"built", "rendered"} => \A i \in 1..Len(records) : ~Offending(i)
  /\ phase \in {"building", "failed"} => built = NoTree

\* C2 witness: a collection that defines items stopped the build after an
\* earlier record was placed and before a later one was read
C2_Witness ==
  /\ phase = "failed"
  /\ error.property = "items"
  /\ idx >= 2
  /\ idx < Len(records)
  /\ entries(tree, <<>>) # {}
  /\ built = NoTree

RECURSIVE placeAll(_, _)
placeAll(t, rs) ==
  IF rs = <<>> THEN t ELSE placeAll(placeRecord(t, rs[1]), Tail(rs))

buildTree(rs) == orderCollections(placeAll(EmptyObj, rs), <<>>)

\* ids, items keys and patterns order of every collection of a tree
shape(t) ==
  {[segs |-> c.segs,
    keys |-> DOMAIN c.coll.items,
    ids |-> {c.coll.items[k].id : k \in DOMAIN c.coll.items},
    patterns |-> [i \in 1..Len(c.coll.patterns) |-> c.coll.patterns[i].id]] :
     c \in collections(t, <<>>)}

Perms(n) == {p \in [1..n -> 1..n] : \A i, j \in 1..n : i # j => p[i] # p[j]}

\* C4: building any permutation of the same records gives the same
\* pattern ids, the same items keys and the same patterns order in every
\* collection.
C4_ReadOrderIndependent ==
  phase = "built" =>
    \A p \in Perms(Len(records)) :
      shape(buildTree([i \in 1..Len(records) |-> records[p[i]]])) = shape(tree)

(***************************************************************************)
(* Properties of the renderer                                              *)
(***************************************************************************)
LayoutResolvable ==
  /\ <<"l">> \in DOMAIN templates
  /\ <<"c">> \in DOMAIN templates[<<"l">>]
  /\ CONTENTS \in DOMAIN templates[<<"l">>][<<"c">>]

\* after is before with, in every collection, a contents field added that
\* holds what the template engine returns for that collection
RECURSIVE renderedFrom(_, _)
renderedFrom(after, before) ==
  /\ DOMAIN after = DOMAIN before
  /\ \A k \in DOMAIN before :
       IF k = COLLECTION
       THEN /\ DOMAIN after[k] = DOMAIN before[k] \cup {"contents"}
            /\ \A f \in DOMAIN before[k] : after[k][f] = before[k][f]
            /\ after[k].contents = LayoutBody \o <<":">> \o before[k].name
       ELSE renderedFrom(after[k], before[k])

RECURSIVE collectionKeyPaths(_, _)
collectionKeyPaths(node, segs) ==
  IF ~isContainer(node) THEN {}
  ELSE UNION {IF k = COLLECTION THEN {segs}
              ELSE collectionKeyPaths(node[k], Append(segs, k)) :
              k \in DOMAIN node}

\* C11: the walk enters a child that is not 'collection' only when it is a
\* container, so that on every finite tree it ends without an error of the
\* engine, enters no string, number or null, leaves them as they were, and
\* calls the template-application function once for each key 'collection'.
C11_WalkContainersOnly ==
  phase \in {"rendered", "overflowed"} =>
    /\ phase = "rendered"
    /\ walk.scalars = 0
    /\ walk.calls = Cardinality(collectionKeyPaths(built, <<>>))
    /\ \A k \in DOMAIN built :
         ~isContainer(built[k]) => tree[k] = built[k]

\* after is before with, in every collection, a contents field added that
\* holds what the template engine returns for an undefined layout body
RECURSIVE renderedUndefined(_, _)
renderedUndefined(after, before) ==
  /\ DOMAIN after = DOMAIN before
  /\ \A k \in DOMAIN before :
       IF k = COLLECTION
       THEN /\ "contents" \in DOMAIN after[k]
            /\ after[k].contents = UndefinedBody \o <<":">> \o before[k].name
       ELSE renderedUndefined(after[k], before[k])

====
